---- MODULE Spec2Model ----
(***************************************************************************)
(* The item database of tendon (tendon-api/src/database.rs) and the        *)
(* store-building operations of the walker (tendon-resolve/src/walker.rs). *)
(*                                                                         *)
(* A store is, per namespace, a map `items` from relative paths to items   *)
(* and a map `bindings` from relative paths to bindings.  Two drivers      *)
(* populate a store: the CrateNamespace methods add_item / add_binding,    *)
(* and the Walker methods add_root_scope / add / add_binding(_by).         *)
(*                                                                         *)
(* Further specifications cover the queries of the database, the import    *)
(* resolver of the walker, the lowering of signatures and metadata         *)
(* (lower/items.rs, lower/attributes.rs) and transitive_dependencies       *)
(* (tools.rs); each has its own initial states and next-state relation.    *)
(***************************************************************************)
EXTENDS Naturals, Integers, Sequences, FiniteSets, TLC

VARIABLES
    driver,      \* which interface populates the store, "Completed" once sealed
    items,       \* the store of this crate: per namespace, path -> item
    bindings,    \* the store of this crate: per namespace, path -> binding
    last,        \* the last call and what it returned
    accessible,  \* the list the last accessible_items returned
    prelude,     \* walker.crate_.prelude: per namespace, name -> binding
    db,          \* Db::crates: crate id -> the crate added under it
    seen,        \* what the last lookup of a reader returned
    completed,   \* the walkers that have completed
    unseen,      \* the items of the source the resolver has not processed yet
    work_list,   \* the imports that could not be resolved yet
    unexpanded,  \* the macro invocations that could not be expanded yet
    back_links,  \* ScopeInProgress::back_links of each scope
    reserved_explicit_imports,  \* of each scope
    phase,       \* where parse_expand_and_resolve is
    progress,    \* whether the current iteration of its outer loop made progress
    insertions,  \* the binding insertions a propagation is to apply
    pending,     \* those of them not applied yet
    syn,         \* the parsed node handed to a lowering function
    lowered,     \* what the lowering function returned for it
    crates,      \* the crate map handed to transitive_dependencies
    target_crate,     \* its target
    to_walk,          \* its stack of crates still to walk
    transitive_deps   \* its set of crates found, returned at the end

\* The database and those who use it.
sealing == <<db, seen, completed>>

\* The state of the import resolver.
resolving ==
    <<unseen, work_list, unexpanded, back_links, reserved_explicit_imports, phase,
      progress>>

\* The insertions of one propagation of glob bindings.
ordering == <<insertions, pending>>

\* The argument and the result of a lowering function.
lowering == <<syn, lowered>>

\* The state of transitive_dependencies.
walking == <<crates, target_crate, to_walk, transitive_deps>>

\* What the store, the database and the resolver do not touch.
elsewhere == <<ordering, lowering, walking>>

vars ==
    <<driver, items, bindings, last, accessible, prelude, sealing, resolving, elsewhere>>

----------------------------------------------------------------------------
(* Identifiers, crates, paths                                              *)

Idents == {"a", "b"}

\* The derived Ord of Ident is the order of the strings.
IdentRank(i) == CASE i = "a" -> 1 [] i = "b" -> 2

ThisCrate == "crate_a"

DepCrate == "crate_b"

Crates == {ThisCrate, DepCrate}

CrateRank(c) == CASE c = "crate_a" -> 1 [] c = "crate_b" -> 2

Namespaces == {"Type", "Symbol", "Macro", "Module"}

Visibility == {"Pub", "NonPub"}

Priority == {"Glob", "Explicit"}

\* RelativePath::root(): the empty sequence of segments.
root == << >>

\* RelativePath::parent(): None for the root, else the path without its
\* last segment.  None is modelled by the value NoPath.
NoPath == <<"{none}">>

parent(path) ==
    IF Len(path) = 0 THEN NoPath ELSE SubSeq(path, 1, Len(path) - 1)

\* AbsolutePath::new(crate_, path)
AbsolutePath_new(crate_, path) == [crate_ |-> crate_, path |-> path]

\* Identity::clone_join(name): the identity of `name` inside a scope.
clone_join(scope, name) == [crate_ |-> scope.crate_, path |-> Append(scope.path, name)]

----------------------------------------------------------------------------
(* Hash maps: a map is a function whose domain is the set of its keys.     *)

EmptyMap == << >>

Put(m, k, v) == [x \in (DOMAIN m) \cup {k} |-> IF x = k THEN v ELSE m[x]]

\* struct Binding { absolute_target, visibility, priority }
Binding(target, visibility, priority) ==
    [absolute_target |-> target, visibility |-> visibility, priority |-> priority]

----------------------------------------------------------------------------
(* CrateNamespace                                                          *)

\* Faulty variant of add_binding: an occupied entry is always overwritten.
add_binding_overwrite(b, path, target, visibility, priority) ==
    [bindings |-> Put(b, path, Binding(target, visibility, priority)), ret |-> "Ok"]

\* Faulty variant of add_binding: an occupied entry is never replaced.
add_binding_no_replace(b, path, target, visibility, priority) ==
    IF path \in DOMAIN b
    THEN [bindings |-> b, ret |-> "BindingAlreadyPresent"]
    ELSE [bindings |-> Put(b, path, Binding(target, visibility, priority)), ret |-> "Ok"]

\* CrateNamespace::add_binding on the bindings map b: the new map and the
\* returned Result.
CrateNamespace_add_binding(b, path, target, visibility, priority) ==
    LET binding == Binding(target, visibility, priority) IN
    IF path \in DOMAIN b
    THEN IF b[path].priority = "Glob" /\ binding.priority = "Explicit"
         THEN [bindings |-> Put(b, path, binding), ret |-> "Ok"]
         ELSE [bindings |-> b, ret |-> "BindingAlreadyPresent"]
    ELSE [bindings |-> Put(b, path, binding), ret |-> "Ok"]

\* Faulty variant of add_item: an occupied entry is overwritten by the new item.
add_item_overwrite(i, b, path, item) ==
    LET target == AbsolutePath_new(ThisCrate, path)
        r == CrateNamespace_add_binding(b, path, target, item.visibility, "Explicit")
    IN  [items |-> Put(i, path, item), bindings |-> r.bindings, ret |-> r.ret]

\* CrateNamespace::add_item on the maps (i, b): the new maps and the
\* returned Result.  The item is stored before the self-binding is tried.
CrateNamespace_add_item(i, b, path, item) ==
    LET visibility == item.visibility IN
    IF path \in DOMAIN i
    THEN [items |-> i, bindings |-> b, ret |-> "ItemAlreadyPresent"]
    ELSE LET target == AbsolutePath_new(ThisCrate, path)
             r == CrateNamespace_add_binding(b, path, target, visibility, "Explicit")
         IN  [items |-> Put(i, path, item), bindings |-> r.bindings, ret |-> r.ret]

----------------------------------------------------------------------------
(* The record of the last call: its arguments and what it returned.        *)

NoItem == [name |-> "-", visibility |-> "-"]

NoTarget == [crate_ |-> "-", path |-> << >>]

NoBinding == [absolute_target |-> NoTarget, visibility |-> "-", priority |-> "-"]

\* get_binding on a bindings map, None modelled by NoBinding.
Lookup(b, path) == IF path \in DOMAIN b THEN b[path] ELSE NoBinding

\* old is the binding get_binding returned at the path just before the call.
Call(op, ns, path, item, target, visibility, priority, old, ret) ==
    [op |-> op, ns |-> ns, path |-> path, item |-> item, target |-> target,
     visibility |-> visibility, priority |-> priority, old |-> old, ret |-> ret]

NoCall == Call("-", "-", << >>, NoItem, NoTarget, "-", "-", NoBinding, "-")

\* CrateNamespace::new for each of the four namespaces of CrateDb::new.
CrateDb_new == [ns \in Namespaces |-> EmptyMap]

\* Db::new() and Walker::new(db, crate_id): an empty database, nothing looked
\* up yet, no walker completed, the empty prelude of Crate::new, no scope in
\* progress, and the resolver not started.
Db_new == EmptyMap

NoCrate == [crate_ |-> "-", items |-> CrateDb_new, bindings |-> CrateDb_new,
            prelude |-> CrateDb_new]

Walker_new ==
    /\ prelude = CrateDb_new
    /\ db = Db_new
    /\ seen = NoCrate
    /\ completed = {}
    /\ unseen = {}
    /\ work_list = << >>
    /\ unexpanded = {}
    /\ back_links = EmptyMap
    /\ reserved_explicit_imports = EmptyMap
    /\ phase = "-"
    /\ progress = FALSE

\* Nothing is being propagated, lowered or walked.
NoInsertions == insertions = {} /\ pending = {}

NoLowering == syn = [kind |-> "-"] /\ lowered = [ret |-> "-"]

NoWalk == crates = EmptyMap /\ target_crate = "-" /\ to_walk = << >> /\ transitive_deps = {}

Elsewhere_idle == NoInsertions /\ NoLowering /\ NoWalk

\* Faulty variant of add_item: every item type is given the types namespace.
add_item_one_namespace(ns, path, item) ==
    /\ driver = "CrateNamespace"
    /\ LET r == CrateNamespace_add_item(items["Type"], bindings["Type"], path, item) IN
       /\ items' = [items EXCEPT !["Type"] = r.items]
       /\ bindings' = [bindings EXCEPT !["Type"] = r.bindings]
       /\ last' = Call("add_item", ns, path, item, NoTarget, "-", "-",
                       Lookup(bindings[ns], path), r.ret)
    /\ UNCHANGED <<driver, accessible, prelude, sealing, resolving, elsewhere>>

\* add_item(path, item) on the namespace ns of the store: the namespace
\* I::get_crate_namespace_mut gives for the item type.
add_item(ns, path, item) ==
    /\ driver = "CrateNamespace"
    /\ LET r == CrateNamespace_add_item(items[ns], bindings[ns], path, item) IN
       /\ items' = [items EXCEPT ![ns] = r.items]
       /\ bindings' = [bindings EXCEPT ![ns] = r.bindings]
       /\ last' = Call("add_item", ns, path, item, NoTarget, "-", "-",
                       Lookup(bindings[ns], path), r.ret)
    /\ UNCHANGED <<driver, accessible, prelude, sealing, resolving, elsewhere>>

\* add_binding(path, target, visibility, priority) on the namespace ns.
add_binding(ns, path, target, visibility, priority) ==
    /\ driver = "CrateNamespace"
    /\ LET r == CrateNamespace_add_binding(bindings[ns], path, target, visibility, priority) IN
       /\ bindings' = [bindings EXCEPT ![ns] = r.bindings]
       /\ last' = Call("add_binding", ns, path, NoItem, target, visibility, priority,
                       Lookup(bindings[ns], path), r.ret)
    /\ UNCHANGED <<driver, items, accessible, prelude, sealing, resolving, elsewhere>>

----------------------------------------------------------------------------
(* The database: Db::crates maps a crate id to the crate added under it.   *)

\* Faulty variant of add_crate: the map is replaced by the one new entry.
add_crate_alone(d, crate_db) == (crate_db.crate_ :> crate_db)

\* Db::add_crate(crate_db): DashMap::insert under the id of the crate; an
\* entry already stored under that id is replaced.
Db_add_crate(d, crate_db) == Put(d, crate_db.crate_, crate_db)

\* The crate a walker of this crate holds: walker.crate_.
Walker_crate_ ==
    [crate_ |-> ThisCrate, items |-> items, bindings |-> bindings, prelude |-> prelude]

----------------------------------------------------------------------------
(* Walker: the store is walker.crate_; a scope is an item of the Module    *)
(* namespace, and the bindings of a scope are the entries of `bindings`    *)
(* at the paths scope ++ <<name>>.                                         *)

\* Identity::root(crate_id)
Identity_root == [crate_ |-> ThisCrate, path |-> root]

\* Crate::get_mut::<Scope>(identity): the scope stored at the identity, if any.
has_scope(i, containing_scope) ==
    /\ containing_scope.crate_ = ThisCrate
    /\ containing_scope.path \in DOMAIN i["Module"]

\* Scope::insert_by(namespace_id, name, target, visibility, priority) on the
\* bindings b of one namespace; an Explicit binding may displace a Glob one,
\* any other insertion over an occupied name is refused.
Scope_insert_by(b, path, target, visibility, priority) ==
    LET binding == Binding(target, visibility, priority) IN
    IF path \in DOMAIN b
    THEN IF b[path].priority = "Glob" /\ priority = "Explicit"
         THEN [bindings |-> Put(b, path, binding), ret |-> "Ok"]
         ELSE [bindings |-> b, ret |-> "Err"]
    ELSE [bindings |-> Put(b, path, binding), ret |-> "Ok"]

\* Faulty variant of add_binding_by: the containing scope is not looked up.
add_binding_by_any_scope(i, b, containing_scope, name, target, visibility, priority) ==
    LET r == Scope_insert_by(b, Append(containing_scope.path, name),
                             target, visibility, priority)
    IN  [bindings |-> r.bindings,
         ret |-> IF r.ret = "Ok" THEN "Ok" ELSE "BindingAlreadyPresent"]

\* Faulty variant of add_binding_by: the binding is stored as public.
add_binding_by_always_pub(i, b, containing_scope, name, target, visibility, priority) ==
    IF ~has_scope(i, containing_scope)
    THEN [bindings |-> b, ret |-> "NoSuchScope"]
    ELSE LET r == Scope_insert_by(b, Append(containing_scope.path, name),
                                  target, "Pub", priority)
         IN  [bindings |-> r.bindings,
              ret |-> IF r.ret = "Ok" THEN "Ok" ELSE "BindingAlreadyPresent"]

\* Walker::add_binding_by on the store (i, b): the new bindings of the
\* namespace and the returned Result.
Walker_add_binding_by(i, b, containing_scope, name, target, visibility, priority) ==
    IF ~has_scope(i, containing_scope)
    THEN [bindings |-> b, ret |-> "NoSuchScope"]
    ELSE LET r == Scope_insert_by(b, Append(containing_scope.path, name),
                                  target, visibility, priority)
         IN  [bindings |-> r.bindings,
              ret |-> IF r.ret = "Ok" THEN "Ok" ELSE "BindingAlreadyPresent"]

\* Walker::add::<I>(containing_scope, item) on the store (i, b), I the item
\* type of namespace ns and b the bindings of ns: the new items, the new
\* bindings of ns and the returned Result.
Walker_add_to(i, b, ns, containing_scope, item) ==
    LET name == item.name
        visibility == item.visibility
        identity == clone_join(containing_scope, name)
        path == identity.path
    IN  IF path \in DOMAIN i[ns]
        THEN [items |-> i, bindings |-> b, ret |-> "ItemAlreadyPresent"]
        ELSE LET i2 == [i EXCEPT ![ns] = Put(@, path, item)]
                 r == Walker_add_binding_by(i2, b, containing_scope,
                                            name, identity, visibility, "Explicit")
             IN  [items |-> i2, bindings |-> r.bindings, ret |-> r.ret]

\* A call of Walker::add::<I>(containing_scope, item).
Walker_add(ns, containing_scope, item) ==
    /\ driver = "Walker"
    /\ LET path == clone_join(containing_scope, item.name).path
           r == Walker_add_to(items, bindings[ns], ns, containing_scope, item)
       IN  /\ items' = r.items
           /\ bindings' = [bindings EXCEPT ![ns] = r.bindings]
           /\ last' = Call("Walker_add", ns, path, item, NoTarget, "-", "-",
                           Lookup(bindings[ns], path), r.ret)
    /\ UNCHANGED <<driver, accessible, prelude, sealing, resolving, elsewhere>>

\* Walker::add_binding::<I>(containing_scope, name, target, visibility, priority)
Walker_add_binding(ns, containing_scope, name, target, visibility, priority) ==
    /\ driver = "Walker"
    /\ LET r == Walker_add_binding_by(items, bindings[ns], containing_scope,
                                      name, target, visibility, priority)
       IN  /\ bindings' = [bindings EXCEPT ![ns] = r.bindings]
           /\ last' = Call("Walker_add_binding", ns, Append(containing_scope.path, name),
                           NoItem, target, visibility, priority,
                           Lookup(bindings[ns], Append(containing_scope.path, name)), r.ret)
    /\ UNCHANGED <<driver, items, accessible, prelude, sealing, resolving, elsewhere>>

\* Faulty variant of add_root_scope: the crate is published with its root.
Walker_add_root_scope_publishing(visibility) ==
    /\ driver = "Walker"
    /\ root \notin DOMAIN items["Module"]
    /\ LET item == [name |-> "{root}", visibility |-> visibility] IN
       /\ items' = [items EXCEPT !["Module"] = Put(@, root, item)]
       /\ db' = Db_add_crate(db, [Walker_crate_ EXCEPT !.items = items'])
       /\ last' = Call("Walker_add_root_scope", "Module", root, item, NoTarget,
                       "-", "-", NoBinding, "Ok")
    /\ UNCHANGED <<driver, bindings, accessible, prelude, seen, completed, resolving, elsewhere>>

\* Walker::add_root_scope(metadata): the scope `{root}` at the empty path.
Walker_add_root_scope(visibility) ==
    /\ driver = "Walker"
    /\ LET item == [name |-> "{root}", visibility |-> visibility] IN
       IF root \in DOMAIN items["Module"]
       THEN /\ last' = Call("Walker_add_root_scope", "Module", root, item, NoTarget,
                            "-", "-", NoBinding, "ItemAlreadyPresent")
            /\ UNCHANGED items
       ELSE /\ items' = [items EXCEPT !["Module"] = Put(@, root, item)]
            /\ last' = Call("Walker_add_root_scope", "Module", root, item, NoTarget,
                            "-", "-", NoBinding, "Ok")
    /\ UNCHANGED <<driver, bindings, accessible, prelude, sealing, resolving, elsewhere>>

\* Walker::add_prelude_binding_by(namespace_id, name, target): the binding is
\* visible in the whole crate, InScope(root), and Explicit.
Walker_add_prelude_binding_by(ns, name, target) ==
    /\ driver = "Walker"
    /\ LET visibility == "InScope"
           r == Scope_insert_by(prelude[ns], <<name>>, target, visibility, "Explicit")
       IN  /\ prelude' = [prelude EXCEPT ![ns] = r.bindings]
           /\ last' = Call("Walker_add_prelude_binding_by", ns, <<name>>, NoItem, target,
                           visibility, "Explicit", Lookup(prelude[ns], <<name>>),
                           IF r.ret = "Ok" THEN "Ok" ELSE "BindingAlreadyPresent")
    /\ UNCHANGED <<driver, items, bindings, accessible, sealing, resolving, elsewhere>>

\* Walker::complete(self): the walker is consumed and its crate inserted
\* into the database.
Walker_complete ==
    /\ driver = "Walker"
    /\ driver' = "Completed"
    /\ db' = Db_add_crate(db, Walker_crate_)
    /\ completed' = completed \cup {"walker"}
    /\ last' = Call("Walker_complete", "-", << >>, NoItem, NoTarget, "-", "-", NoBinding, "Ok")
    /\ UNCHANGED <<items, bindings, accessible, prelude, seen, resolving, elsewhere>>

----------------------------------------------------------------------------
(* The store specification: one namespace of one crate, driven either      *)
(* through CrateNamespace or through a Walker.                             *)

\* The relative paths the calls use.
StorePaths == {<<"a">>, <<"b">>}

\* The targets bindings are given: two in this crate, one in a dependency.
StoreTargets ==
    {AbsolutePath_new(ThisCrate, <<"a">>), AbsolutePath_new(ThisCrate, <<"b">>),
     AbsolutePath_new(DepCrate, <<"a">>)}

\* An item defined at a path carries the last segment as its name.
ItemAt(path, visibility) == [name |-> path[Len(path)], visibility |-> visibility]

Init ==
    /\ driver \in {"CrateNamespace", "Walker"}
    /\ items = CrateDb_new
    /\ bindings = CrateDb_new
    /\ last = NoCall
    /\ accessible = << >>
    /\ Walker_new
    /\ Elsewhere_idle

Next ==
    \/ \E path \in StorePaths, visibility \in Visibility :
          add_item("Type", path, ItemAt(path, visibility))
    \/ \E path \in StorePaths, target \in StoreTargets,
          visibility \in Visibility, priority \in Priority :
          add_binding("Type", path, target, visibility, priority)
    \/ Walker_add_root_scope("Pub")
    \/ \E name \in Idents, visibility \in Visibility :
          Walker_add("Type", Identity_root, [name |-> name, visibility |-> visibility])
    \/ \E name \in Idents, target \in StoreTargets,
          visibility \in Visibility, priority \in Priority :
          Walker_add_binding("Type", Identity_root, name, target, visibility, priority)

Spec == Init /\ [][Next]_vars

\* The walkers of other crates that complete while this one works: two
\* walkers of the same dependency that hold different crates.
OtherWalkers == {"w1", "w2"}

OtherCrate(w) ==
    IF w = "w1"
    THEN [NoCrate EXCEPT !.crate_ = DepCrate]
    ELSE LET r == CrateNamespace_add_item(EmptyMap, EmptyMap, <<"a">>, ItemAt(<<"a">>, "Pub"))
         IN  [NoCrate EXCEPT !.crate_ = DepCrate,
                             !.items = [CrateDb_new EXCEPT !["Type"] = r.items],
                             !.bindings = [CrateDb_new EXCEPT !["Type"] = r.bindings]]

\* db.add_crate(crate_db) by the walker w of another crate.
add_crate(w) ==
    /\ w \notin completed
    /\ db' = Db_add_crate(db, OtherCrate(w))
    /\ completed' = completed \cup {w}
    /\ last' = Call("add_crate", "-", << >>, NoItem, AbsolutePath_new(DepCrate, root),
                    "-", "-", NoBinding, "Ok")
    /\ UNCHANGED <<driver, items, bindings, accessible, prelude, seen, resolving, elsewhere>>

\* self.crates.get(crate_) by a reader: the crate stored under the id, if any.
crates_get(crate_) ==
    /\ seen' = IF crate_ \in DOMAIN db THEN db[crate_] ELSE NoCrate
    /\ last' = Call("crates_get", "-", << >>, NoItem, AbsolutePath_new(crate_, root),
                    "-", "-", NoBinding, IF crate_ \in DOMAIN db THEN "Some" ELSE "None")
    /\ UNCHANGED <<driver, items, bindings, accessible, prelude, db, completed, resolving, elsewhere>>

----------------------------------------------------------------------------
(* The walker specification: a walker of this crate builds its crate in    *)
(* the root scope and the scope a and completes, while walkers of a        *)
(* dependency complete and readers look crates up.                         *)

\* The scopes the walker is asked to add to: the root and the module a.
WalkerScopes == {Identity_root, clone_join(Identity_root, "a")}

InitWalker ==
    /\ driver = "Walker"
    /\ items = CrateDb_new
    /\ bindings = CrateDb_new
    /\ last = NoCall
    /\ accessible = << >>
    /\ Walker_new
    /\ Elsewhere_idle

NextWalker ==
    \/ Walker_add_root_scope("Pub")
    \/ Walker_add("Module", Identity_root, [name |-> "a", visibility |-> "Pub"])
    \/ \E scope \in WalkerScopes :
          Walker_add("Type", scope, [name |-> "b", visibility |-> "Pub"])
    \/ \E scope \in WalkerScopes, priority \in Priority :
          Walker_add_binding("Type", scope, "b", AbsolutePath_new(DepCrate, <<"a">>),
                             "Pub", priority)
    \/ Walker_add_prelude_binding_by("Type", "a", AbsolutePath_new(DepCrate, <<"a">>))
    \/ Walker_complete
    \/ \E w \in OtherWalkers : add_crate(w)
    \/ \E crate_ \in Crates : crates_get(crate_)

SpecWalker == InitWalker /\ [][NextWalker]_vars

----------------------------------------------------------------------------
(* Db::accessible_items and CrateDb::is_module_externally_visible          *)

\* The derived Ord of RelativePath(Vec<Ident>): segment-wise lexicographic,
\* a proper prefix before its extensions.
VecLess(p, q) ==
    \E k \in 1..(Len(p) + 1) :
        /\ \A j \in 1..(k - 1) : j <= Len(q) /\ p[j] = q[j]
        /\ \/ k > Len(p) /\ k <= Len(q)
           \/ k <= Len(p) /\ k <= Len(q) /\ IdentRank(p[k]) < IdentRank(q[k])

\* The derived Ord of AbsolutePath: the crate, then the path.
AbsLess(s, t) ==
    \/ CrateRank(s.crate_) < CrateRank(t.crate_)
    \/ s.crate_ = t.crate_ /\ VecLess(s.path, t.path)

\* The Ord of the tuple (RelativePath, AbsolutePath) that result.sort() uses.
PairLess(x, y) ==
    \/ VecLess(x[1], y[1])
    \/ x[1] = y[1] /\ AbsLess(x[2], y[2])

\* The loop of is_module_externally_visible from segment k on; "panic" is
\* the failed expect("checking missing module?").
RECURSIVE visible_from(_, _, _)
visible_from(modules, mod_, k) ==
    IF k > Len(mod_) THEN "true"
    ELSE LET cur_check == SubSeq(mod_, 1, k) IN
         IF cur_check \notin DOMAIN modules THEN "panic"
         ELSE IF modules[cur_check].visibility = "NonPub" THEN "false"
         ELSE visible_from(modules, mod_, k + 1)

\* Faulty variant of is_module_externally_visible: only the module itself is
\* looked at, not the modules that contain it.
is_module_visible_leaf_only(modules, mod_) ==
    IF Len(mod_) = 0 THEN "true"
    ELSE IF mod_ \notin DOMAIN modules THEN "panic"
    ELSE IF modules[mod_].visibility = "NonPub" THEN "false" ELSE "true"

\* CrateDb::is_module_externally_visible(mod_), modules the bindings of the
\* Module namespace.
is_module_externally_visible(modules, mod_) == visible_from(modules, mod_, 1)

\* path.parent().map(|p| is_module_externally_visible(&p)).unwrap_or(true)
is_containing_module_public(modules, path) ==
    IF parent(path) = NoPath THEN "true"
    ELSE is_module_externally_visible(modules, parent(path))

\* Faulty variant of should_replace: ties of length are not broken.
should_replace_shorter_only(path, cur_access_path) ==
    Len(path) < Len(cur_access_path)

\* Faulty variant of should_replace: the later binding always wins.
should_replace_always(path, cur_access_path) == TRUE

\* should_replace of accessible_items.
should_replace(path, cur_access_path) ==
    LET new_shorter == Len(path) < Len(cur_access_path)
        new_same_and_lexicographically_earlier ==
            Len(path) = Len(cur_access_path) /\ VecLess(path, cur_access_path)
    IN  new_shorter \/ new_same_and_lexicographically_earlier

\* Faulty variant of the filter: the visibility of the binding is ignored.
is_listed_any_visibility(binding, containing) == containing = "true"

\* Faulty variant of the filter: the containing module is ignored.
is_listed_any_module(binding, containing) == binding.visibility = "Pub"

\* binding.visibility == Visibility::Pub && is_containing_module_public
is_listed(binding, containing) ==
    binding.visibility = "Pub" /\ containing = "true"

\* The for loop of accessible_items over the bindings, visited in the order
\* the hash map yields them; result maps each target to its access path.
RECURSIVE scan(_, _, _, _, _)
scan(namespace, modules, order, k, result) ==
    IF k > Len(order) THEN [result |-> result, panic |-> FALSE]
    ELSE LET path == order[k]
             binding == namespace[path]
             containing == is_containing_module_public(modules, path)
             target == binding.absolute_target
         IN  IF containing = "panic" THEN [result |-> result, panic |-> TRUE]
             ELSE IF is_listed(binding, containing)
             THEN IF target \notin DOMAIN result
                  THEN scan(namespace, modules, order, k + 1, Put(result, target, path))
                  ELSE IF should_replace(path, result[target])
                  THEN scan(namespace, modules, order, k + 1, Put(result, target, path))
                  ELSE scan(namespace, modules, order, k + 1, result)
             ELSE scan(namespace, modules, order, k + 1, result)

\* Faulty variant of the final step: the list is returned unsorted.
collect_unsorted(result, order2) ==
    [k \in 1..Len(order2) |-> <<result[order2[k]], order2[k]>>]

\* result.into_iter().map(|(abs, rel)| (rel, abs)).collect(), then sort();
\* order2 is the order in which the hash map `result` yields its entries.
collect_sorted(result, order2) ==
    SortSeq([k \in 1..Len(order2) |-> <<result[order2[k]], order2[k]>>], PairLess)

\* The orders in which a hash map with the keys S can yield them.
Orders(S) ==
    {s \in [1..Cardinality(S) -> S] : \A i, j \in 1..Cardinality(S) : i # j => s[i] # s[j]}

\* CrateDb::get_item::<I>(path_), None modelled by NoItem.
CrateDb_get_item(i, ns, path_) ==
    IF path_ \in DOMAIN i[ns] THEN i[ns][path_] ELSE NoItem

\* A call of CrateDb::is_module_externally_visible(mod_) on the store.
is_module_externally_visible_call(mod_) ==
    /\ last' = Call("is_module_externally_visible", "Module", mod_, NoItem, NoTarget,
                    "-", "-", NoBinding,
                    is_module_externally_visible(bindings["Module"], mod_))
    /\ accessible' = << >>
    /\ UNCHANGED <<driver, items, bindings, prelude, sealing, resolving, elsewhere>>

\* Db::accessible_items::<I>(crate_) for the namespace ns of the crate.
accessible_items(ns) ==
    /\ \E order \in Orders(DOMAIN bindings[ns]) :
          LET r == scan(bindings[ns], bindings["Module"], order, 1, EmptyMap) IN
          IF r.panic
          THEN /\ accessible' = << >>
               /\ last' = Call("accessible_items", ns, << >>, NoItem, NoTarget, "-", "-",
                               NoBinding, "panic")
          ELSE \E order2 \in Orders(DOMAIN r.result) :
               /\ accessible' = collect_sorted(r.result, order2)
               /\ last' = Call("accessible_items", ns, << >>, NoItem, NoTarget, "-", "-",
                               NoBinding, "Ok")
    /\ UNCHANGED <<driver, items, bindings, prelude, sealing, resolving, elsewhere>>

----------------------------------------------------------------------------
(* The query specification: accessible_items applied to the binding tables *)
(* of a crate, drawn from the tables the store operations can build.       *)

\* The most bindings a table of the Type namespace holds.
MaxBindings == 3

QueryPaths == {<<"a">>, <<"b">>, <<"a", "b">>, <<"b", "a">>, <<"a", "b", "a">>}

\* The modules that contain the paths: a, b and a::b.
QueryModules == {<<"a">>, <<"b">>, <<"a", "b">>}

\* The bindings of the tables: the item defined at a::b of this crate under
\* either visibility, and a public binding to a target in a dependency.
QueryBindings ==
    {Binding(AbsolutePath_new(ThisCrate, <<"a", "b">>), "Pub", "Explicit"),
     Binding(AbsolutePath_new(ThisCrate, <<"a", "b">>), "NonPub", "Explicit"),
     Binding(AbsolutePath_new(DepCrate, <<"a">>), "Pub", "Explicit")}

\* The maps with keys in K and values in V.
Maps(K, V) == UNION {[D -> V] : D \in SUBSET K}

\* The binding tables of the Type namespace.
TypeTables ==
    UNION {[D -> QueryBindings] :
              D \in {E \in SUBSET QueryPaths : Cardinality(E) <= MaxBindings}}

\* The binding tables of the Module namespace: self-bindings of modules.
ModuleTables ==
    {m \in Maps(QueryModules,
                {Binding(AbsolutePath_new(ThisCrate, p), v, "Explicit") :
                     p \in QueryModules, v \in Visibility}) :
        \A p \in DOMAIN m : m[p].absolute_target.path = p}

\* The items behind a table: add_item has stored an item at every path whose
\* binding targets that same path of this crate.
ItemsOf(t) ==
    [p \in {q \in DOMAIN t : t[q].absolute_target = AbsolutePath_new(ThisCrate, q)}
        |-> ItemAt(p, t[p].visibility)]

InitQuery ==
    /\ driver = "CrateNamespace"
    /\ \E t \in TypeTables, m \in ModuleTables :
          /\ bindings = [CrateDb_new EXCEPT !["Type"] = t, !["Module"] = m]
          /\ items = [CrateDb_new EXCEPT !["Type"] = ItemsOf(t), !["Module"] = ItemsOf(m)]
    /\ last = NoCall
    /\ accessible = << >>
    /\ Walker_new
    /\ Elsewhere_idle

NextQuery == \E ns \in {"Type", "Module"} : accessible_items(ns)

SpecQuery == InitQuery /\ [][NextQuery]_vars

\* The module specification: is_module_externally_visible asked of the
\* module tables, about the modules of the tables, the root, and a module
\* b::a that no table holds.
AskedModules == QueryModules \cup {root, <<"b", "a">>}

InitModules ==
    /\ driver = "CrateNamespace"
    /\ \E m \in ModuleTables :
          /\ bindings = [CrateDb_new EXCEPT !["Module"] = m]
          /\ items = [CrateDb_new EXCEPT !["Module"] = ItemsOf(m)]
    /\ last = NoCall
    /\ accessible = << >>
    /\ Walker_new
    /\ Elsewhere_idle

NextModules == \E mod_ \in AskedModules : is_module_externally_visible_call(mod_)

SpecModules == InitModules /\ [][NextModules]_vars

----------------------------------------------------------------------------
(* The import resolver of the walker, after the pseudocode in the module   *)
(* documentation of walker.rs.  The items of the source are types of the   *)
(* modules a and b, imports between the two, and macros.                   *)

Names == {"x", "y"}

ScopeA == <<"a">>

ScopeB == <<"b">>

ResolverScopes == {ScopeA, ScopeB}

\* The identity of the scope at a path of this crate.
Identity_of(path) == [crate_ |-> ThisCrate, path |-> path]

\* `pub struct name;` in a module.
Definition(module, name) ==
    [kind |-> "definition", module |-> module, name |-> name,
     from |-> NoPath, source |-> "-", visibility |-> "Pub"]

\* `pub use from::source as name;` in a module.
ExplicitUse(module, from, source, name) ==
    [kind |-> "explicit use", module |-> module, name |-> name,
     from |-> from, source |-> source, visibility |-> "Pub"]

\* `use from::*;` in a module, under a visibility.
GlobUse(module, from, visibility) ==
    [kind |-> "glob", module |-> module, name |-> "*",
     from |-> from, source |-> "*", visibility |-> visibility]

\* `macro_rules! name { ... }` at the root.
MacroRules(name) ==
    [kind |-> "macro_rules", module |-> root, name |-> name,
     from |-> NoPath, source |-> "-", visibility |-> "NonPub"]

\* `name!();` in item position in a module.
MacroInvocation(module, name) ==
    [kind |-> "macro invocation", module |-> module, name |-> name,
     from |-> NoPath, source |-> "-", visibility |-> "NonPub"]

\* The items the macro expands to where it is invoked: m gives a type y,
\* r gives an invocation of r.
Template(name, module) ==
    IF name = "m" THEN {Definition(module, "y")} ELSE {MacroInvocation(module, name)}

\* What the resolver works on: the crate and the walker's own records.
Resolver ==
    [items |-> items, bindings |-> bindings, work_list |-> work_list,
     back_links |-> back_links, reserved |-> reserved_explicit_imports,
     progress |-> progress]

\* scopes_in_progress[module].back_links, none for a scope without record.
Links(bl, module) == IF module \in DOMAIN bl THEN bl[module] ELSE {}

\* scopes_in_progress[module].reserved_explicit_imports
Reserved(res, module) == IF module \in DOMAIN res THEN res[module] ELSE {}

\* Faulty variant of is_reserved: explicit imports reserve nothing.
is_reserved_never(st, module, name) == FALSE

\* "If an explicit import exists, we never add any glob names that match it."
is_reserved(st, module, name) == name \in Reserved(st.reserved, module)

\* bindings.insert_if_no_higher_priority_binding(name, module, binding, Glob):
\* nothing is added for a reserved name, and add_binding_by refuses a Glob
\* binding where the name is bound.
insert_glob(st, module, name, target, visibility) ==
    IF is_reserved(st, module, name) THEN [st |-> st, ret |-> "reserved"]
    ELSE LET r == Walker_add_binding_by(st.items, st.bindings["Type"], Identity_of(module),
                                        name, target, visibility, "Glob")
         IN  IF r.ret = "Ok"
             THEN [st |-> [st EXCEPT !.bindings["Type"] = r.bindings, !.progress = TRUE],
                   ret |-> "Ok"]
             ELSE [st |-> st, ret |-> r.ret]

\* "When we add a binding here, we have to go to all of those and add it
\* there too (with the accompanying visibility)": the binding of name with
\* the target is added along the links; added collects the scopes that took it.
RECURSIVE add_along(_, _, _, _, _)
add_along(st, links, name, target, added) ==
    IF links = {} THEN [st |-> st, added |-> added]
    ELSE LET link == CHOOSE l \in links : TRUE
             r == insert_glob(st, link.scope, name, target, link.visibility)
         IN  add_along(r.st, links \ {link}, name, target,
                       IF r.ret = "Ok" THEN added \cup {link.scope} ELSE added)

\* Faulty variant of populate_back_links: nothing is passed on.
populate_back_links_nowhere(st, todo, name) == st

\* populate_back_links(module, item): the binding of name, newly added to
\* the scopes of todo, is passed on along their back links, and from the
\* scopes that take it along theirs.
RECURSIVE populate_back_links(_, _, _)
populate_back_links(st, todo, name) ==
    IF todo = {} THEN st
    ELSE LET module == CHOOSE m \in todo : TRUE
             target == st.bindings["Type"][Append(module, name)].absolute_target
             r == add_along(st, Links(st.back_links, module), name, target, {})
         IN  populate_back_links(r.st, (todo \ {module}) \cup r.added, name)

\* process_names, an item that is a definition: bindings.insert(item.name,
\* module, item) through Walker::add, then populate_back_links(module, item).
define(st, item) ==
    LET r == Walker_add_to(st.items, st.bindings["Type"], "Type", Identity_of(item.module),
                           [name |-> item.name, visibility |-> item.visibility])
        st2 == [st EXCEPT !.items = r.items, !.bindings["Type"] = r.bindings,
                          !.progress = @ \/ r.ret # "ItemAlreadyPresent"]
    IN  [st |-> IF r.ret = "Ok" THEN populate_back_links(st2, {item.module}, item.name)
                ELSE st2,
         ret |-> r.ret]

\* try_to_resolve_import, an explicit use `use from::source as name`: the
\* name is reserved in the module; if from::source is bound, the name is
\* bound, Explicit, to the target of that binding and passed on.
resolve_explicit(st, item) ==
    LET st1 == [st EXCEPT !.reserved =
                   Put(@, item.module, Reserved(@, item.module) \cup {item.name})]
        path == Append(item.from, item.source)
    IN  IF path \notin DOMAIN st.bindings["Type"]
        THEN [st |-> st1, ret |-> "unresolved"]
        ELSE LET r == Walker_add_binding_by(st1.items, st1.bindings["Type"],
                          Identity_of(item.module), item.name,
                          st1.bindings["Type"][path].absolute_target,
                          item.visibility, "Explicit")
                 st2 == [st1 EXCEPT !.bindings["Type"] = r.bindings, !.progress = TRUE]
             IN  IF r.ret = "Ok"
                 THEN [st |-> populate_back_links(st2, {item.module}, item.name), ret |-> "Ok"]
                 ELSE [st |-> st1, ret |-> r.ret]

\* The names bound in a scope.
NamesIn(b, module) == {name \in Names : Append(module, name) \in DOMAIN b}

\* try_to_resolve_import, the loop `for binding in n` of a glob.
RECURSIVE glob_names(_, _, _)
glob_names(st, item, names) ==
    IF names = {} THEN st
    ELSE LET name == CHOOSE n \in names : TRUE
             target == st.bindings["Type"][Append(item.from, name)].absolute_target
             r == insert_glob(st, item.module, name, target, item.visibility)
         IN  glob_names(IF r.ret = "Ok"
                        THEN populate_back_links(r.st, {item.module}, name)
                        ELSE r.st,
                        item, names \ {name})

\* try_to_resolve_import, a glob `use from::*`: if from is a scope, its
\* bindings are added as Glob bindings and add_back_link(from to module).
resolve_glob(st, item) ==
    IF ~has_scope(st.items, Identity_of(item.from))
    THEN [st |-> st, ret |-> "unresolved"]
    ELSE LET st1 == glob_names(st, item, NamesIn(st.bindings["Type"], item.from))
             link == [scope |-> item.module, visibility |-> item.visibility]
         IN  [st |-> [st1 EXCEPT !.back_links =
                         Put(@, item.from, Links(@, item.from) \cup {link})],
              ret |-> "Ok"]

try_to_resolve_import(st, item) ==
    IF item.kind = "explicit use" THEN resolve_explicit(st, item) ELSE resolve_glob(st, item)

\* process_names, an item that is an import: Err => work_list.push(module, item)
import(st, item) ==
    LET r == try_to_resolve_import(st, item) IN
    [st |-> IF r.ret = "unresolved"
            THEN [r.st EXCEPT !.work_list = Append(@, item)]
            ELSE r.st,
     ret |-> r.ret]

\* process_names, a macro_rules item: the macro is added at the root.
define_macro(st, item) ==
    LET r == Walker_add_to(st.items, st.bindings["Macro"], "Macro", Identity_root,
                           [name |-> item.name, visibility |-> item.visibility])
    IN  [st |-> [st EXCEPT !.items = r.items, !.bindings["Macro"] = r.bindings,
                           !.progress = @ \/ r.ret # "ItemAlreadyPresent"],
         ret |-> r.ret]

\* Faulty variant of process_work_list: the entries are pushed again untried.
retry_none(st, entries, k) == [st EXCEPT !.work_list = entries]

\* process_work_list: each entry is removed and tried again, from entry k
\* on; an entry that still does not resolve is pushed again.
RECURSIVE retry(_, _, _)
retry(st, entries, k) ==
    IF k > Len(entries) THEN st
    ELSE LET r == try_to_resolve_import(st, entries[k]) IN
         IF r.ret = "unresolved"
         THEN retry([r.st EXCEPT !.work_list = Append(@, entries[k])], entries, k + 1)
         ELSE retry([r.st EXCEPT !.progress = TRUE], entries, k + 1)

\* The crate and the walker's records become those of st.
Becomes(st) ==
    /\ items' = st.items
    /\ bindings' = st.bindings
    /\ work_list' = st.work_list
    /\ back_links' = st.back_links
    /\ reserved_explicit_imports' = st.reserved
    /\ progress' = st.progress

\* The record of a step of the resolver on an item of the source.
Step(op, item, ret) ==
    Call(op, item.kind, Append(item.module, item.name),
         [name |-> item.name, visibility |-> item.visibility],
         AbsolutePath_new(ThisCrate, item.from), item.visibility, "-",
         Lookup(bindings["Type"], Append(item.module, item.name)), ret)

NoSourceItem == Definition(root, "-")

\* process_names: one unseen item is processed.
process_names(item) ==
    /\ phase = "process_names"
    /\ item \in unseen
    /\ unseen' = unseen \ {item}
    /\ LET r == CASE item.kind = "definition" -> define(Resolver, item)
                  [] item.kind \in {"explicit use", "glob"} -> import(Resolver, item)
                  [] item.kind = "macro_rules" -> define_macro(Resolver, item)
                  [] OTHER -> [st |-> Resolver, ret |-> "unexpanded"]
       IN  /\ Becomes(r.st)
           /\ last' = Step("process_names", item, r.ret)
    /\ unexpanded' = IF item.kind = "macro invocation"
                     THEN unexpanded \cup {item} ELSE unexpanded
    /\ UNCHANGED <<driver, accessible, prelude, sealing, phase, elsewhere>>

\* process_names has no unseen item left: on to the inner loop.
process_names_end ==
    /\ phase = "process_names"
    /\ unseen = {}
    /\ phase' = "process_work_list"
    /\ UNCHANGED <<driver, items, bindings, last, accessible, prelude, sealing, unseen,
                   work_list, unexpanded, back_links, reserved_explicit_imports, progress,
                   elsewhere>>

\* One round of the inner loop: process_work_list; the loop is left after a
\* round that removed no entry.
process_work_list ==
    /\ phase = "process_work_list"
    /\ LET st == retry([Resolver EXCEPT !.work_list = << >>], work_list, 1) IN
       /\ Becomes(st)
       /\ phase' = IF st.work_list = work_list THEN "expand_macros" ELSE phase
    /\ last' = Step("process_work_list", NoSourceItem, "Ok")
    /\ UNCHANGED <<driver, accessible, prelude, sealing, unseen, unexpanded, elsewhere>>

\* expand_macros: every unexpanded invocation of a macro that is known by
\* now is replaced by the items it expands to, which are unseen items; then
\* the outer loop is left if this iteration made no progress.
expand_macros ==
    /\ phase = "expand_macros"
    /\ LET expandable == {u \in unexpanded : <<u.name>> \in DOMAIN items["Macro"]}
           made == progress \/ expandable # {}
       IN  /\ unexpanded' = unexpanded \ expandable
           /\ unseen' = unseen \cup UNION {Template(u.name, u.module) : u \in expandable}
           /\ phase' = IF made THEN "process_names" ELSE "done"
    /\ progress' = FALSE
    /\ last' = Step("expand_macros", NoSourceItem, "Ok")
    /\ UNCHANGED <<driver, items, bindings, accessible, prelude, sealing, work_list,
                   back_links, reserved_explicit_imports, elsewhere>>

----------------------------------------------------------------------------
(* The resolver specification: parse_expand_and_resolve on a source of at  *)
(* most MaxItems items, in a crate whose scopes root, a and b are added.   *)

\* The most items a source holds.
MaxItems == 3

SourceItems ==
    {Definition(ScopeB, "x"), Definition(ScopeA, "x"),
     GlobUse(ScopeA, ScopeB, "Pub"), GlobUse(ScopeB, ScopeA, "NonPub"),
     ExplicitUse(ScopeA, ScopeB, "y", "x"),
     MacroRules("m"), MacroInvocation(ScopeB, "m"),
     MacroRules("r"), MacroInvocation(ScopeB, "r")}

Sources == {source \in SUBSET SourceItems : Cardinality(source) <= MaxItems}

\* The crate after add_root_scope and the add of the modules a and b.
ScopesAdded ==
    LET i0 == [CrateDb_new EXCEPT !["Module"] =
                  (root :> [name |-> "{root}", visibility |-> "Pub"])]
        ra == Walker_add_to(i0, EmptyMap, "Module", Identity_root,
                            [name |-> "a", visibility |-> "Pub"])
        rb == Walker_add_to(ra.items, ra.bindings, "Module", Identity_root,
                            [name |-> "b", visibility |-> "Pub"])
    IN  [items |-> rb.items, bindings |-> [CrateDb_new EXCEPT !["Module"] = rb.bindings]]

InitResolve ==
    /\ driver = "Walker"
    /\ items = ScopesAdded.items
    /\ bindings = ScopesAdded.bindings
    /\ last = NoCall
    /\ accessible = << >>
    /\ prelude = CrateDb_new
    /\ db = Db_new
    /\ seen = NoCrate
    /\ completed = {}
    /\ unseen \in Sources
    /\ work_list = << >>
    /\ unexpanded = {}
    /\ back_links = EmptyMap
    /\ reserved_explicit_imports = EmptyMap
    /\ phase = "process_names"
    /\ progress = FALSE
    /\ Elsewhere_idle

NextResolve ==
    \/ \E item \in unseen : process_names(item)
    \/ process_names_end
    \/ process_work_list
    \/ expand_macros

SpecResolve == InitResolve /\ [][NextResolve]_vars

\* The expansion specification: the resolver on the sources made of macros,
\* their invocations and a definition.  The loop is the walker's own
\* thread: while it can take a step, it does.
MacroItems ==
    {Definition(ScopeB, "x"), MacroRules("m"), MacroInvocation(ScopeB, "m"),
     MacroRules("r"), MacroInvocation(ScopeB, "r")}

InitExpand == InitResolve /\ unseen \subseteq MacroItems

SpecExpand == InitExpand /\ [][NextResolve]_vars /\ WF_vars(NextResolve)

----------------------------------------------------------------------------
(* The propagation of glob bindings: the bindings found by iterating a     *)
(* namespace are inserted by add_binding, in the order the hash map of the *)
(* namespace yields them.                                                  *)

\* The most insertions one propagation makes.
MaxInsertions == 3

\* The arguments of one add_binding call.
Insertion(path, target, visibility, priority) ==
    [path |-> path, target |-> target, visibility |-> visibility, priority |-> priority]

\* The insertions a propagation may hold: two names, each bound explicitly
\* or through a glob to one of two items.
Insertions ==
    {Insertion(path, target, "Pub", priority) :
        path \in StorePaths,
        target \in {AbsolutePath_new(ThisCrate, <<"a">>), AbsolutePath_new(DepCrate, <<"a">>)},
        priority \in Priority}

\* add_binding called for the insertions of the sequence s, in its order,
\* on the bindings map b; a refused insertion is skipped.
RECURSIVE add_bindings(_, _)
add_bindings(b, s) ==
    IF s = << >>
    THEN b
    ELSE LET x == Head(s) IN
         add_bindings(CrateNamespace_add_binding(b, x.path, x.target, x.visibility,
                                                 x.priority).bindings,
                      Tail(s))

\* The next insertion of the propagation: any of those not applied yet.
propagate(x) ==
    /\ x \in pending
    /\ pending' = pending \ {x}
    /\ LET r == CrateNamespace_add_binding(bindings["Type"], x.path, x.target,
                                           x.visibility, x.priority)
       IN  /\ bindings' = [bindings EXCEPT !["Type"] = r.bindings]
           /\ last' = Call("add_binding", "Type", x.path, NoItem, x.target, x.visibility,
                           x.priority, Lookup(bindings["Type"], x.path), r.ret)
    /\ UNCHANGED <<driver, items, accessible, prelude, sealing, resolving, insertions,
                   lowering, walking>>

InitOrder ==
    /\ driver = "CrateNamespace"
    /\ items = CrateDb_new
    /\ bindings = CrateDb_new
    /\ last = NoCall
    /\ accessible = << >>
    /\ Walker_new
    /\ insertions \in {S \in SUBSET Insertions : Cardinality(S) <= MaxInsertions}
    /\ pending = insertions
    /\ NoLowering
    /\ NoWalk

NextOrder == \E x \in pending : propagate(x)

SpecOrder == InitOrder /\ [][NextOrder]_vars

----------------------------------------------------------------------------
(* The namespace specification: items and bindings are added at one path   *)
(* of each of the four namespaces of a CrateDb.                            *)

SharedPath == <<"a">>

InitNamespaces ==
    /\ driver = "CrateNamespace"
    /\ items = CrateDb_new
    /\ bindings = CrateDb_new
    /\ last = NoCall
    /\ accessible = << >>
    /\ Walker_new
    /\ Elsewhere_idle

NextNamespaces ==
    \/ \E ns \in Namespaces : add_item(ns, SharedPath, ItemAt(SharedPath, "Pub"))
    \/ \E ns \in Namespaces, priority \in Priority :
          add_binding(ns, SharedPath, AbsolutePath_new(DepCrate, <<"a">>), "Pub", priority)

SpecNamespaces == InitNamespaces /\ [][NextNamespaces]_vars

----------------------------------------------------------------------------
(* The re-export specification: the walker adds the type b to the root or  *)
(* to the module a, and binds the name a to it in either scope.            *)

\* The visibilities a binding is given: public, private, or visible in the
\* crate, Visibility::InScope(root).
BindingVisibility == Visibility \cup {"InScope"}

InitReexport ==
    /\ driver = "Walker"
    /\ items = CrateDb_new
    /\ bindings = CrateDb_new
    /\ last = NoCall
    /\ accessible = << >>
    /\ Walker_new
    /\ Elsewhere_idle

NextReexport ==
    \/ Walker_add_root_scope("Pub")
    \/ Walker_add("Module", Identity_root, [name |-> "a", visibility |-> "Pub"])
    \/ \E scope \in WalkerScopes, visibility \in Visibility :
          Walker_add("Type", scope, [name |-> "b", visibility |-> visibility])
    \/ \E scope \in WalkerScopes, target \in WalkerScopes, visibility \in BindingVisibility :
          Walker_add_binding("Type", scope, "a", clone_join(target, "b"), visibility,
                             "Explicit")

SpecReexport == InitReexport /\ [][NextReexport]_vars

----------------------------------------------------------------------------
(* Lowering of function signatures: lower_signature(sig).  An Option is a  *)
(* sequence of length at most one.                                         *)

None == << >>

Some(x) == <<x>>

\* syn::FnArg::Receiver: `self`, `mut self`, `&self`, `&'a mut self`, ...;
\* reference is the Option of the `&` with its Option of a lifetime.
Receiver(reference, mutability) ==
    [arg |-> "Receiver", reference |-> reference, mutability |-> mutability]

\* syn::FnArg::Typed: a pattern and a type.
Typed(pat, ty) == [arg |-> "Typed", pat |-> pat, ty |-> ty]

\* syn::Pat::Ident, and a pattern of another form.
PatIdent(ident) == [pat |-> "Ident", ident |-> ident]

PatTuple == [pat |-> "Tuple", ident |-> "-"]

\* The argument syn keeps in the inputs for the `...` of a variadic function.
VariadicArg == Typed(PatIdent("rest"), "...")

\* lower_type(ty): the types that lower, and those that are refused (a macro
\* in type position, the verbatim `...`).
lower_type(ty) ==
    IF ty \in {"m!()", "..."}
    THEN [ret |-> "Err", type_ |-> "-"]
    ELSE [ret |-> "Ok", type_ |-> <<"Path", ty>>]

\* lower_lifetime(lifetime)
lower_lifetime(lifetime) == <<"Lifetime", lifetime>>

\* enum Abi { Rust, C, Other(String) }
Abi_Rust == <<"Rust">>

Abi_C == <<"C">>

Abi_Other(name) == <<"Other", name>>

\* Faulty variant of the abi match: a bare `extern` is taken for Rust.
lower_abi_bare_rust(abi) ==
    IF abi = None
    THEN Abi_Rust
    ELSE IF abi[1] # None
         THEN CASE abi[1][1] = "Rust" -> Abi_Rust
                [] abi[1][1] = "C" -> Abi_C
                [] OTHER -> Abi_Other(abi[1][1])
         ELSE Abi_Rust

\* sig.abi.as_ref().map(..).unwrap_or(Abi::Rust): sig.abi is the Option of
\* an `extern` with the Option of its name.
lower_abi(abi) ==
    IF abi = None
    THEN Abi_Rust
    ELSE IF abi[1] # None
         THEN CASE abi[1][1] = "Rust" -> Abi_Rust
                [] abi[1][1] = "C" -> Abi_C
                [] OTHER -> Abi_Other(abi[1][1])
         ELSE Abi_C

\* enum Receiver { None, ConsumeSelf, RefSelf { lifetime, mut_ } }
Receiver_None == [receiver |-> "None", lifetime |-> None, mut_ |-> FALSE]

Receiver_ConsumeSelf == [receiver |-> "ConsumeSelf", lifetime |-> None, mut_ |-> FALSE]

Receiver_RefSelf(lifetime, mut_) ==
    [receiver |-> "RefSelf", lifetime |-> lifetime, mut_ |-> mut_]

\* The Receiver arm of the filter closure.
lower_receiver(rec) ==
    IF rec.reference # None
    THEN LET lifetime == IF rec.reference[1] = None
                         THEN None ELSE Some(lower_lifetime(rec.reference[1][1]))
             mut_ == rec.mutability
         IN  Receiver_RefSelf(lifetime, mut_)
    ELSE Receiver_ConsumeSelf

\* Faulty variant of the other arm of the filter: the last argument is
\* skipped whether the function is variadic or not.
keep_arg_but_last(variadic, i, len) == i < len - 1

\* The other arm of the filter closure, i the index from 0 of the argument
\* and len = sig.inputs.len().
keep_arg(variadic, i, len) == IF variadic THEN i < len - 1 ELSE TRUE

\* The filter over sig.inputs from the k-th on: acc holds the receiver set
\* so far and the arguments let through.
RECURSIVE filter_inputs(_, _, _)
filter_inputs(sig, k, acc) ==
    IF k > Len(sig.inputs)
    THEN acc
    ELSE LET arg == sig.inputs[k] IN
         IF arg.arg = "Receiver"
         THEN filter_inputs(sig, k + 1, [acc EXCEPT !.receiver = lower_receiver(arg)])
         ELSE IF keep_arg(sig.variadic, k - 1, Len(sig.inputs))
              THEN filter_inputs(sig, k + 1, [acc EXCEPT !.args = Append(@, arg)])
              ELSE filter_inputs(sig, k + 1, acc)

\* struct FunctionArg { type_, name }
FunctionArg(type_, name) == [type_ |-> type_, name |-> name]

\* The map over the arguments let through and the collect into a Result:
\* the first error ends the lowering.
RECURSIVE lower_args(_)
lower_args(args) ==
    IF args = << >>
    THEN [ret |-> "Ok", args |-> << >>]
    ELSE LET arg == Head(args) IN
         IF arg.arg # "Typed"
         THEN [ret |-> "MalformedFunctionArg", args |-> << >>]
         ELSE LET t == lower_type(arg.ty)
                  name == IF arg.pat.pat = "Ident" THEN arg.pat.ident ELSE "_"
                  rest == lower_args(Tail(args))
              IN  IF t.ret # "Ok"
                  THEN [ret |-> t.ret, args |-> << >>]
                  ELSE IF rest.ret # "Ok"
                       THEN rest
                       ELSE [ret |-> "Ok",
                             args |-> <<FunctionArg(t.type_, name)>> \o rest.args]

\* lower_signature(sig): the Result, with the fields of the Signature when
\* it is Ok.  The return type and the generics of the signatures lowered
\* here are `()` and empty, and lower without error.
lower_signature(sig) ==
    LET variadic == sig.variadic
        f == filter_inputs(sig, 1, [receiver |-> Receiver_None, args |-> << >>])
        args == lower_args(f.args)
    IN  IF args.ret # "Ok"
        THEN [ret |-> args.ret]
        ELSE [ret |-> "Ok",
              abi |-> lower_abi(sig.abi),
              args |-> args.args,
              is_async |-> "async" \in sig.qualifiers,
              is_const |-> "const" \in sig.qualifiers,
              is_unsafe |-> "unsafe" \in sig.qualifiers,
              receiver |-> f.receiver,
              variadic |-> variadic]

\* A call of lower_signature on the signature at hand.
lower_signature_call ==
    /\ syn.kind = "Signature"
    /\ lowered = [ret |-> "-"]
    /\ lowered' = lower_signature(syn)
    /\ UNCHANGED <<driver, items, bindings, last, accessible, prelude, sealing, resolving,
                   ordering, syn, walking>>

----------------------------------------------------------------------------
(* Lowering of metadata: lower_metadata(module, visibility, attributes,    *)
(* span).  A string is the sequence of its lines.                          *)

\* parse_attribute on `#[path = literal]`, `#[path]` and `#[path(args)]`:
\* Meta::Assign, Meta::Path and Meta::Call, args the nested metas.
MetaAssign(path, literal) ==
    [path |-> path, meta |-> "Assign", literal |-> literal, args |-> << >>]

MetaPath(path) == [path |-> path, meta |-> "Path", literal |-> << >>, args |-> << >>]

MetaCall(path, args) == [path |-> path, meta |-> "Call", literal |-> << >>, args |-> args]

\* extract_string(literal): the value of the string literal.
extract_string(literal) == literal

\* Faulty variant of the visibility match: nothing is inherited.
lower_visibility_own(visibility, module_visibility) ==
    IF visibility = "Public" THEN "Pub" ELSE "NonPub"

\* The match on syn::Visibility at the head of lower_metadata.
lower_visibility(visibility, module_visibility) ==
    CASE visibility = "Public" -> "Pub"
      [] visibility = "Inherited" -> module_visibility
      [] OTHER -> "NonPub"

\* The loop over the arguments of `#[deprecated(..)]` from the k-th on.
RECURSIVE lower_deprecated(_, _, _)
lower_deprecated(args, k, d) ==
    IF k > Len(args)
    THEN d
    ELSE LET arg == args[k] IN
         IF arg.meta = "Assign"
         THEN IF arg.path = "since"
              THEN lower_deprecated(args, k + 1,
                                    [d EXCEPT !.since = Some(extract_string(arg.literal))])
              ELSE IF arg.path = "note"
                   THEN lower_deprecated(args, k + 1,
                                         [d EXCEPT !.note = Some(extract_string(arg.literal))])
                   ELSE lower_deprecated(args, k + 1, d)
         ELSE lower_deprecated(args, k + 1, d)

\* The loop over the attributes from the k-th on; m holds docs, must_use,
\* deprecated and extra_attributes as set so far.
RECURSIVE lower_attributes(_, _, _)
lower_attributes(attributes, k, m) ==
    IF k > Len(attributes)
    THEN m
    ELSE LET attr == attributes[k] IN
         CASE attr.path = "doc" ->
                lower_attributes(attributes, k + 1,
                    [m EXCEPT !.docs = Some(IF attr.meta = "Assign"
                                            THEN extract_string(attr.literal)
                                            ELSE << >>)])
           [] attr.path = "must_use" ->
                lower_attributes(attributes, k + 1,
                    [m EXCEPT !.must_use = Some(IF attr.meta = "Assign"
                                                THEN extract_string(attr.literal)
                                                ELSE << >>)])
           [] attr.path = "deprecated" ->
                lower_attributes(attributes, k + 1,
                    [m EXCEPT !.deprecated =
                        Some(IF attr.meta = "Call"
                             THEN lower_deprecated(attr.args, 1,
                                                   [since |-> None, note |-> None])
                             ELSE [since |-> None, note |-> None])])
           [] OTHER ->
                lower_attributes(attributes, k + 1,
                    [m EXCEPT !.extra_attributes = Append(@, attr)])

\* lower_metadata(module, visibility, attributes, span): the Metadata, its
\* span left out.
lower_metadata(node) ==
    LET visibility == lower_visibility(node.visibility, node.module.visibility)
        m == lower_attributes(node.attributes, 1,
                              [docs |-> None, must_use |-> None, deprecated |-> None,
                               extra_attributes |-> << >>])
    IN  [ret |-> "Ok",
         visibility |-> visibility,
         docs |-> m.docs,
         must_use |-> m.must_use,
         deprecated |-> m.deprecated,
         extra_attributes |-> m.extra_attributes]

\* A call of lower_metadata on the item at hand.
lower_metadata_call ==
    /\ syn.kind = "Item"
    /\ lowered = [ret |-> "-"]
    /\ lowered' = lower_metadata(syn)
    /\ UNCHANGED <<driver, items, bindings, last, accessible, prelude, sealing, resolving,
                   ordering, syn, walking>>

----------------------------------------------------------------------------
(* The lowering specification: one signature or one item with its          *)
(* attributes is lowered.                                                  *)

\* The most arguments a signature has beside its receiver and its `...`.
MaxArgs == 2

\* The most attributes an item carries.
MaxAttributes == 2

\* The sequences of at most n elements of S.
SeqsUpTo(S, n) == UNION {[1..k -> S] : k \in 0..n}

\* `self`, `mut self`, `&self`, `&mut self`, `&'a self`, `&'a mut self`
Receivers ==
    {Receiver(reference, mutability) :
        reference \in {None, Some(None), Some(Some("'a"))}, mutability \in BOOLEAN}

\* `y: i32`, `z: u8`, `(p, q): i32` and `w: m!()`
TypedArgs ==
    {Typed(PatIdent("y"), "i32"), Typed(PatIdent("z"), "u8"), Typed(PatTuple, "i32"),
     Typed(PatIdent("w"), "m!()")}

\* no `extern`, `extern`, `extern "C"`, `extern "Rust"`, `extern "system"`
Abis == {None, Some(None), Some(Some("C")), Some(Some("Rust")), Some(Some("system"))}

\* The signatures syn parses: a receiver comes first if there is one, and
\* the argument of the `...` last.
Signatures ==
    {[kind |-> "Signature", abi |-> abi, qualifiers |-> qualifiers, variadic |-> variadic,
      inputs |-> receiver \o args \o (IF variadic THEN <<VariadicArg>> ELSE << >>)] :
        abi \in Abis,
        qualifiers \in {{}, {"const", "async", "unsafe"}},
        variadic \in BOOLEAN,
        receiver \in {<<r>> : r \in Receivers} \cup {<< >>},
        args \in SeqsUpTo(TypedArgs, MaxArgs)}

\* `/// p`, `/// q`, `#[doc(hidden)]`, `#[must_use = "m"]`, `#[must_use]`,
\* `#[deprecated(since = "0.2.0", note = "n")]`, `#[other_attribute]`
Attributes ==
    {MetaAssign("doc", <<"p">>), MetaAssign("doc", <<"q">>),
     MetaCall("doc", <<MetaPath("hidden")>>),
     MetaAssign("must_use", <<"m">>), MetaPath("must_use"),
     MetaCall("deprecated", <<MetaAssign("since", <<"0.2.0">>), MetaAssign("note", <<"n">>)>>),
     MetaPath("other_attribute")}

\* `pub`, `crate`, `pub(in path)` and no keyword
SynVisibility == {"Public", "Crate", "Restricted", "Inherited"}

\* The items with their module: ModuleCtx { source_file, visibility }.
ItemNodes ==
    {[kind |-> "Item", module |-> [visibility |-> module_visibility],
      visibility |-> visibility, attributes |-> attributes] :
        module_visibility \in Visibility,
        visibility \in SynVisibility,
        attributes \in SeqsUpTo(Attributes, MaxAttributes)}

InitLower ==
    /\ driver = "CrateNamespace"
    /\ items = CrateDb_new
    /\ bindings = CrateDb_new
    /\ last = NoCall
    /\ accessible = << >>
    /\ Walker_new
    /\ NoInsertions
    /\ syn \in Signatures \cup ItemNodes
    /\ lowered = [ret |-> "-"]
    /\ NoWalk

NextLower ==
    \/ lower_signature_call
    \/ lower_metadata_call

SpecLower == InitLower /\ [][NextLower]_vars

----------------------------------------------------------------------------
(* transitive_dependencies(target_crate, crates): the crate map gives for  *)
(* each crate the set of the crates it depends on, the values of its deps. *)

CrateIds == {"a", "b", "c"}

\* The most dependencies a crate has.
MaxDeps == 2

\* The record of the call: "running" inside the loop, then "Ok" or "panic".
Walk(ret) ==
    Call("transitive_dependencies", "-", << >>, NoItem,
         AbsolutePath_new(target_crate, root), "-", "-", NoBinding, ret)

\* The head of the function: the target is inserted into the set and pushed.
transitive_dependencies_call ==
    /\ target_crate \in CrateIds
    /\ last = NoCall
    /\ transitive_deps' = {target_crate}
    /\ to_walk' = <<target_crate>>
    /\ last' = Walk("running")
    /\ UNCHANGED <<driver, items, bindings, accessible, prelude, sealing, resolving,
                   ordering, lowering, crates, target_crate>>

\* Faulty variant of the test of the loop body: no crate counts as new.
newly_inserted_none(deps, found) == {}

\* The dependencies for which transitive_deps.insert returns true.
newly_inserted(deps, found) == deps \ found

\* The sequence s followed by the elements of the sequence t.
Pushed(s, t) == s \o t

\* One iteration of `while let Some(next) = to_walk.pop()`: the crates newly
\* inserted are pushed in the order the set of dependencies yields them;
\* indexing the map with a crate it does not hold panics.  The function
\* returns when the stack is empty.
walk ==
    /\ last.op = "transitive_dependencies"
    /\ last.ret = "running"
    /\ LET next == to_walk[Len(to_walk)]
           popped == SubSeq(to_walk, 1, Len(to_walk) - 1)
       IN  IF next \notin DOMAIN crates
           THEN /\ last' = Walk("panic")
                /\ to_walk' = popped
                /\ UNCHANGED transitive_deps
           ELSE \E order \in Orders(newly_inserted(crates[next], transitive_deps)) :
                   /\ transitive_deps' = transitive_deps \cup crates[next]
                   /\ to_walk' = Pushed(popped, order)
                   /\ last' = Walk(IF to_walk' = << >> THEN "Ok" ELSE "running")
    /\ UNCHANGED <<driver, items, bindings, accessible, prelude, sealing, resolving,
                   ordering, lowering, crates, target_crate>>

\* The crate maps: some of the crates, each with at most MaxDeps
\* dependencies, which need not be crates of the map.
CrateMaps ==
    UNION {[K -> {D \in SUBSET CrateIds : Cardinality(D) <= MaxDeps}] : K \in SUBSET CrateIds}

InitDeps ==
    /\ driver = "CrateNamespace"
    /\ items = CrateDb_new
    /\ bindings = CrateDb_new
    /\ last = NoCall
    /\ accessible = << >>
    /\ Walker_new
    /\ NoInsertions
    /\ NoLowering
    /\ crates \in CrateMaps
    /\ target_crate \in CrateIds
    /\ to_walk = << >>
    /\ transitive_deps = {}

NextDeps ==
    \/ transitive_dependencies_call
    \/ walk

\* The function runs to its end: while it can take a step, it does.
SpecDeps == InitDeps /\ [][NextDeps]_vars /\ WF_vars(NextDeps)

----------------------------------------------------------------------------
(* Properties of the store                                                 *)

\* The calls that insert an item: CrateNamespace::add_item and Walker::add.
ItemInsertions == {"add_item", "Walker_add"}

\* C1: an insertion of an item at a path that already holds an item of the
\* namespace returns ItemAlreadyPresent, and the item stored at the path is
\* the one that was there before the call.
C1_ItemAlreadyPresent ==
    [][(/\ last'.op \in ItemInsertions
        /\ last'.path \in DOMAIN items[last'.ns])
       => (/\ last'.ret = "ItemAlreadyPresent"
           /\ last'.path \in DOMAIN items'[last'.ns]
           /\ items'[last'.ns][last'.path] = items[last'.ns][last'.path])]_vars

\* A second add_item at an occupied path, with an item that differs from the
\* stored one, has been refused.
C1_Witness ==
    /\ last.op = "add_item"
    /\ last.ret = "ItemAlreadyPresent"
    /\ last.path \in DOMAIN items[last.ns]
    /\ items[last.ns][last.path] # last.item

\* The new binding may displace the stored one: stored Glob, new Explicit.
MayDisplace(old, priority) == old.priority = "Glob" /\ priority = "Explicit"

\* C2: add_binding at a path holding a binding of equal or higher priority
\* returns BindingAlreadyPresent and leaves the stored binding as it was.
C2_BindingAlreadyPresent ==
    [][(/\ last'.op = "add_binding"
        /\ last'.path \in DOMAIN bindings[last'.ns]
        /\ ~MayDisplace(bindings[last'.ns][last'.path], last'.priority))
       => (/\ last'.ret = "BindingAlreadyPresent"
           /\ last'.path \in DOMAIN bindings'[last'.ns]
           /\ bindings'[last'.ns][last'.path] = bindings[last'.ns][last'.path])]_vars

\* Explicit-then-Glob: a Glob binding with another target was refused at a
\* path that holds an Explicit binding, which is still there.
C2_Witness ==
    /\ last.op = "add_binding"
    /\ last.priority = "Glob"
    /\ last.old.priority = "Explicit"
    /\ last.old.absolute_target # last.target
    /\ last.ret = "BindingAlreadyPresent"
    /\ bindings[last.ns][last.path] = last.old

\* C3: an Explicit binding inserted at a path that holds a Glob binding is
\* accepted, and get_binding then returns the Explicit binding.
C3_ExplicitDisplacesGlob ==
    [][(/\ last'.op = "add_binding"
        /\ last'.path \in DOMAIN bindings[last'.ns]
        /\ bindings[last'.ns][last'.path].priority = "Glob"
        /\ last'.priority = "Explicit")
       => (/\ last'.ret = "Ok"
           /\ Lookup(bindings'[last'.ns], last'.path)
                 = Binding(last'.target, last'.visibility, "Explicit"))]_vars

\* Glob-then-Explicit with another target and another visibility.
C3_Witness ==
    /\ last.op = "add_binding"
    /\ last.priority = "Explicit"
    /\ last.old.priority = "Glob"
    /\ last.old.absolute_target # last.target
    /\ last.old.visibility # last.visibility
    /\ last.ret = "Ok"

\* The self-binding of the item stored at path p of a namespace.
SelfBinding(ns, p) ==
    Binding(AbsolutePath_new(ThisCrate, p), items[ns][p].visibility, "Explicit")

\* C4: after any sequence of add_item and add_binding calls on a namespace,
\* every item stored at a path p has at p a binding that targets the item's
\* own absolute path, with Explicit priority and the item's visibility.
C4_SelfBinding ==
    driver = "CrateNamespace" =>
        \A p \in DOMAIN items["Type"] :
            /\ p \in DOMAIN bindings["Type"]
            /\ bindings["Type"][p] = SelfBinding("Type", p)

\* C5: in every state of a store built through CrateNamespace, every binding
\* whose target lies in this crate targets a path that holds an item of the
\* same namespace.
C5_NoDanglingBinding ==
    driver = "CrateNamespace" =>
        \A p \in DOMAIN bindings["Type"] :
            LET t == bindings["Type"][p].absolute_target IN
            t.crate_ = ThisCrate => t.path \in DOMAIN items["Type"]

\* C6: bindings are collapsed: the target of a binding is never the path of
\* a binding that itself leads elsewhere (a re-export).
C6_Collapsed ==
    driver = "CrateNamespace" =>
        \A p \in DOMAIN bindings["Type"] :
            LET t == bindings["Type"][p].absolute_target IN
            (t.crate_ = ThisCrate /\ t.path \in DOMAIN bindings["Type"])
                => bindings["Type"][t.path].absolute_target = t

\* C7: a stored binding changes only from a Glob binding to an Explicit one
\* (so at most once), and no binding is ever removed.
C7_ReplacedOnlyGlobByExplicit ==
    [][\A p \in DOMAIN bindings["Type"] :
          /\ p \in DOMAIN bindings'["Type"]
          /\ bindings'["Type"][p] # bindings["Type"][p]
                => (/\ bindings["Type"][p].priority = "Glob"
                    /\ bindings'["Type"][p].priority = "Explicit")]_vars

\* A Glob binding has been displaced by an Explicit one with another target.
C7_Witness ==
    /\ last.op \in {"add_binding", "add_item"}
    /\ last.old.priority = "Glob"
    /\ last.ret = "Ok"
    /\ bindings[last.ns][last.path].priority = "Explicit"
    /\ bindings[last.ns][last.path].absolute_target # last.old.absolute_target

----------------------------------------------------------------------------
(* Properties of accessible_items                                          *)

\* Every module from the root down to m has a binding with Pub visibility.
ExternallyVisible(m) ==
    \A k \in 1..Len(m) :
        /\ SubSeq(m, 1, k) \in DOMAIN bindings["Module"]
        /\ bindings["Module"][SubSeq(m, 1, k)].visibility = "Pub"

\* The binding at p of namespace ns is public and its containing module is
\* externally visible (a path of one segment is contained in the root).
Reachable(ns, p) ==
    /\ p \in DOMAIN bindings[ns]
    /\ bindings[ns][p].visibility = "Pub"
    /\ Len(p) <= 1 \/ ExternallyVisible(SubSeq(p, 1, Len(p) - 1))

Returned == last.op = "accessible_items" /\ last.ret = "Ok"

\* C8: accessible_items returns (p, t) only for a public binding at p with
\* target t whose containing module is externally visible, and every target
\* of such a binding is in the result.
C8_AccessibleExactly ==
    Returned =>
        /\ \A k \in 1..Len(accessible) :
              /\ Reachable(last.ns, accessible[k][1])
              /\ bindings[last.ns][accessible[k][1]].absolute_target = accessible[k][2]
        /\ \A p \in DOMAIN bindings[last.ns] :
              Reachable(last.ns, p) =>
                  \E k \in 1..Len(accessible) :
                      accessible[k][2] = bindings[last.ns][p].absolute_target

\* A result that lists something while the table also holds a non-public
\* binding and a public binding under a module that is not visible.
C8_Witness ==
    /\ Returned
    /\ last.ns = "Type"
    /\ Len(accessible) >= 1
    /\ \E p, q \in DOMAIN bindings["Type"] :
          /\ bindings["Type"][p].visibility = "NonPub"
          /\ Len(p) = 1
          /\ bindings["Type"][q].visibility = "Pub"
          /\ Len(q) = 3
          /\ ~Reachable("Type", q)

\* C9: a target reached by several accessible bindings is listed once, under
\* the path with the fewest segments, and among those of that length under
\* the segment-wise lexicographically smallest.
C9_ShortestThenLexicographic ==
    Returned =>
        /\ \A i, j \in 1..Len(accessible) :
              i # j => accessible[i][2] # accessible[j][2]
        /\ \A k \in 1..Len(accessible) :
              \A q \in DOMAIN bindings[last.ns] :
                  (/\ Reachable(last.ns, q)
                   /\ bindings[last.ns][q].absolute_target = accessible[k][2]
                   /\ q # accessible[k][1])
                  => \/ Len(accessible[k][1]) < Len(q)
                     \/ /\ Len(accessible[k][1]) = Len(q)
                        /\ VecLess(accessible[k][1], q)

\* One target reached by two accessible paths of one segment and by a longer
\* accessible path.
C9_Witness ==
    /\ Returned
    /\ last.ns = "Type"
    /\ \E p, q, r \in DOMAIN bindings["Type"] :
          /\ Reachable("Type", p) /\ Reachable("Type", q) /\ Reachable("Type", r)
          /\ p # q /\ Len(p) = 1 /\ Len(q) = 1 /\ Len(r) = 2
          /\ bindings["Type"][p].absolute_target = bindings["Type"][q].absolute_target
          /\ bindings["Type"][p].absolute_target = bindings["Type"][r].absolute_target

\* C10: the list accessible_items returns is sorted ascending by (relative
\* path, absolute target), and it is the list returned for every order in
\* which the two hash maps can yield their entries.
C10_Deterministic ==
    Returned =>
        /\ \A i, j \in 1..Len(accessible) :
              i < j => PairLess(accessible[i], accessible[j])
        /\ \A order \in Orders(DOMAIN bindings[last.ns]) :
              LET r == scan(bindings[last.ns], bindings["Module"], order, 1, EmptyMap) IN
              /\ ~r.panic
              /\ \A order2 \in Orders(DOMAIN r.result) :
                    collect_sorted(r.result, order2) = accessible

\* A result of two entries from a table of at least three bindings.
C10_Witness ==
    /\ Returned
    /\ last.ns = "Type"
    /\ Len(accessible) = 2
    /\ Cardinality(DOMAIN bindings["Type"]) >= 3

----------------------------------------------------------------------------
(* The re-export scenario: `mod a { pub struct T; }` and `pub use a::T as  *)
(* U;` at the root, T the name b inside a and U the name b at the root.    *)

DefiningPath == <<"a", "b">>

ReexportPath == <<"b">>

DefiningTarget == AbsolutePath_new(ThisCrate, DefiningPath)

\* The Type table holds the self-binding of T and the re-export U, both
\* public, and nothing else; the module a is bound.
ReexportScenario ==
    /\ DOMAIN bindings["Type"] = {DefiningPath, ReexportPath}
    /\ \A p \in DOMAIN bindings["Type"] :
          bindings["Type"][p] = Binding(DefiningTarget, "Pub", "Explicit")
    /\ <<"a">> \in DOMAIN bindings["Module"]

\* C11 (as stated): in the re-export scenario with the module a not public,
\* the result lists the target both under the defining path a::T and under
\* the re-export U.
C11_BothEntries ==
    (/\ Returned /\ last.ns = "Type" /\ ReexportScenario
     /\ bindings["Module"][<<"a">>].visibility = "NonPub")
    => \E i, j \in 1..Len(accessible) :
          /\ accessible[i] = <<DefiningPath, DefiningTarget>>
          /\ accessible[j] = <<ReexportPath, DefiningTarget>>

\* C11 (amended): in the re-export scenario the result is the single entry
\* (U, p::a::T), whether the module a is public or not.
C11_OneEntry ==
    (Returned /\ last.ns = "Type" /\ ReexportScenario)
    => accessible = << <<ReexportPath, DefiningTarget>> >>

\* The scenario as written, the module a not public, has been queried.
C11_Witness ==
    /\ Returned /\ last.ns = "Type" /\ ReexportScenario
    /\ bindings["Module"][<<"a">>].visibility = "NonPub"
    /\ CrateDb_get_item(items, "Type", DefiningPath) = ItemAt(DefiningPath, "Pub")
    /\ Len(accessible) = 1

\* The path passes through a module that is bound with NonPub visibility.
ThroughNonPub(p) ==
    \E k \in 1..(Len(p) - 1) :
        /\ SubSeq(p, 1, k) \in DOMAIN bindings["Module"]
        /\ bindings["Module"][SubSeq(p, 1, k)].visibility = "NonPub"

\* C12: accessible_items lists no path that passes through a NonPub module,
\* whatever the visibility of the binding at the path, and get_item at the
\* defining path of an item under such a module still returns the item.
C12_NonPubSubtreeHidden ==
    Returned =>
        /\ \A k \in 1..Len(accessible) : ~ThroughNonPub(accessible[k][1])
        /\ \A p \in DOMAIN items[last.ns] :
              ThroughNonPub(p) =>
                  /\ CrateDb_get_item(items, last.ns, p) = ItemAt(p, items[last.ns][p].visibility)
                  /\ \A k \in 1..Len(accessible) : accessible[k][1] # p

\* A public item defined under a NonPub module whose target is not listed at
\* all, in a result that lists something else.
C12_Witness ==
    /\ Returned /\ last.ns = "Type"
    /\ bindings["Module"] = (<<"a">> :> Binding(AbsolutePath_new(ThisCrate, <<"a">>),
                                                "NonPub", "Explicit"))
    /\ CrateDb_get_item(items, "Type", DefiningPath) = ItemAt(DefiningPath, "Pub")
    /\ Len(accessible) = 1
    /\ accessible[1][2] # DefiningTarget

\* C13: is_module_externally_visible(m) returns true exactly when every
\* non-empty prefix of m has a module binding with Pub visibility, and it
\* returns false when the first prefix without such a binding is NonPub.
C13_ExternallyVisible ==
    last.op = "is_module_externally_visible" =>
        /\ last.ret = "true" <=> ExternallyVisible(last.path)
        /\ \A k \in 1..Len(last.path) :
              (/\ ExternallyVisible(SubSeq(last.path, 1, k - 1))
               /\ SubSeq(last.path, 1, k) \in DOMAIN bindings["Module"]
               /\ bindings["Module"][SubSeq(last.path, 1, k)].visibility = "NonPub")
              => last.ret = "false"

\* The module a::b is public inside the NonPub module a, and the call
\* returned false.
C13_Witness ==
    /\ last.op = "is_module_externally_visible"
    /\ last.path = <<"a", "b">>
    /\ last.ret = "false"
    /\ DOMAIN bindings["Module"] = {<<"a">>, <<"a", "b">>}
    /\ bindings["Module"][<<"a">>].visibility = "NonPub"
    /\ bindings["Module"][<<"a", "b">>].visibility = "Pub"

----------------------------------------------------------------------------
(* Properties of the walker and the database                               *)

\* The scope that contains the path of the last call.
ContainingScope(path) == [crate_ |-> ThisCrate, path |-> parent(path)]

\* C14: add_binding (through add_binding_by) on a scope of this crate that
\* has not been added to the store returns NoSuchScope, and no binding of
\* any scope is inserted or changed.
C14_NoSuchScope ==
    [][(/\ last'.op = "Walker_add_binding"
        /\ ~has_scope(items, ContainingScope(last'.path)))
       => (/\ last'.ret = "NoSuchScope"
           /\ bindings' = bindings)]_vars

\* The root scope is in the store and holds a binding, the scope a is not,
\* and a binding asked for in a has been refused.
C14_Witness ==
    /\ last.op = "Walker_add_binding"
    /\ last.path = <<"a", "b">>
    /\ last.ret = "NoSuchScope"
    /\ root \in DOMAIN items["Module"]
    /\ <<"a">> \notin DOMAIN items["Module"]
    /\ <<"b">> \in DOMAIN bindings["Type"]

\* C15: a crate stored in the database under an id stays stored under that
\* id as it is, whatever is done afterwards.
C15_SealedImmutable ==
    [][\A k \in DOMAIN db : k \in DOMAIN db' /\ db'[k] = db[k]]_vars

\* The crate a completed walker held when it completed.
CrateOf(w) == IF w = "walker" THEN Walker_crate_ ELSE OtherCrate(w)

\* The walkers that have completed were walkers of distinct crates.
DistinctCrates ==
    \A v, w \in completed : v # w => CrateOf(v).crate_ # CrateOf(w).crate_

\* C16: while walkers of distinct crates complete and readers look crates
\* up, the database holds exactly the crates of the completed walkers, each
\* whole, and what a reader got for the id k is nothing or the whole crate
\* the walker of k completed with.
C16_WholeCrates ==
    DistinctCrates =>
        /\ DOMAIN db = {CrateOf(w).crate_ : w \in completed}
        /\ \A w \in completed : db[CrateOf(w).crate_] = CrateOf(w)
        /\ seen = NoCrate \/ \E w \in completed : seen = CrateOf(w)
        /\ last.op = "crates_get" =>
              \/ last.ret = "None" /\ seen = NoCrate
              \/ last.ret = "Some" /\ seen.crate_ = last.target.crate_

\* This walker and a walker of the dependency have completed, and a reader
\* has got the crate of this walker, which holds items and bindings.
C16_Witness ==
    /\ completed = {"walker", "w2"}
    /\ last.op = "crates_get"
    /\ last.target.crate_ = ThisCrate
    /\ seen = Walker_crate_
    /\ <<"a", "b">> \in DOMAIN seen.items["Type"]
    /\ <<"b">> \in DOMAIN seen.bindings["Type"]

\* The operations of a walker that build its crate.
WalkerOps ==
    {"Walker_add_root_scope", "Walker_add", "Walker_add_binding",
     "Walker_add_prelude_binding_by"}

----------------------------------------------------------------------------
(* Properties of the resolver                                              *)

LinkedTo(to, from) == \E link \in Links(back_links, from) : link.scope = to

\* The binding of a name in a scope, NoBinding if there is none.
BindingIn(b, module, name) == Lookup(b["Type"], Append(module, name))

\* The name is bound in scope B by this step, and A has resolved `use B::*`.
AddedBehindGlob(A, B, name) ==
    /\ A # B
    /\ LinkedTo(A, B)
    /\ BindingIn(bindings, B, name) = NoBinding
    /\ BindingIn(bindings', B, name) # NoBinding

\* After this step A holds a Glob binding of the name with the target of
\* the binding in B.
GlobCopy(A, B, name) ==
    /\ BindingIn(bindings', A, name).priority = "Glob"
    /\ BindingIn(bindings', A, name).absolute_target
          = BindingIn(bindings', B, name).absolute_target

C20_ReservedKept ==
    [][\A module \in ResolverScopes, name \in Names :
          name \in Reserved(reserved_explicit_imports, module)
          => \/ BindingIn(bindings', module, name) = BindingIn(bindings, module, name)
             \/ BindingIn(bindings', module, name).priority = "Explicit"]_vars

\* x is reserved in a by an import that is still on the work list, a has
\* resolved `use b::*`, the definition of x in b has just been processed,
\* and x is not bound in a.
C20_Witness ==
    /\ last.op = "process_names"
    /\ last.ns = "definition"
    /\ last.path = <<"b", "x">>
    /\ last.ret = "Ok"
    /\ LinkedTo(ScopeA, ScopeB)
    /\ "x" \in Reserved(reserved_explicit_imports, ScopeA)
    /\ Len(work_list) = 1
    /\ BindingIn(bindings, ScopeA, "x") = NoBinding

----------------------------------------------------------------------------
(* Properties of the order of insertions                                   *)

\* One order of the insertions, the same for every run.
OneOrder(S) == CHOOSE s \in Orders(S) : TRUE

\* C21: once all insertions of a set are applied, the bindings map is the
\* one that applying them in one fixed order yields, whatever the order
\* they were applied in.
C21_OrderIndependent ==
    pending = {} => bindings["Type"] = add_bindings(EmptyMap, OneOrder(insertions))

----------------------------------------------------------------------------
(* Properties of the namespaces                                            *)

\* C22: add_item and add_binding on one namespace leave the items and the
\* bindings of the other three as they were, and they succeed whenever the
\* namespace itself holds nothing at the path, whatever the others hold.
C22_NamespacesIndependent ==
    [][last'.op \in {"add_item", "add_binding"}
       => /\ \A ns \in Namespaces \ {last'.ns} :
                items'[ns] = items[ns] /\ bindings'[ns] = bindings[ns]
          /\ (/\ last'.path \notin DOMAIN items[last'.ns]
              /\ last'.path \notin DOMAIN bindings[last'.ns])
             => last'.ret = "Ok"]_vars

\* The fourth add_item at the path has succeeded: every namespace holds an
\* item and its self-binding there.
C22_Witness ==
    /\ last.op = "add_item"
    /\ last.ret = "Ok"
    /\ last.old = NoBinding
    /\ \A ns \in Namespaces :
          /\ SharedPath \in DOMAIN items[ns]
          /\ Lookup(bindings[ns], SharedPath)
                = Binding(AbsolutePath_new(ThisCrate, SharedPath), "Pub", "Explicit")

----------------------------------------------------------------------------
(* Properties of re-exports                                                *)

\* The self-binding Walker::add gives the item stored at the identity.
OwnBinding(i, ns, identity) ==
    Binding(identity, i[ns][identity.path].visibility, "Explicit")

\* The item of the namespace at the identity is stored and bound to itself
\* where it is defined, as a successful Walker::add leaves it.
Added(i, b, ns, identity) ==
    /\ identity.crate_ = ThisCrate
    /\ identity.path \in DOMAIN i[ns]
    /\ Lookup(b[ns], identity.path) = OwnBinding(i, ns, identity)

\* C23: a successful Walker::add binds the item where it is defined, to the
\* containing scope joined with its name and under the item's visibility;
\* a successful add_binding of another name to an item added so stores the
\* item's identity as target under the visibility passed, and leaves the
\* self-binding with the same target and the item's own visibility.
C23_Reexport ==
    [][/\ (last'.op = "Walker_add" /\ last'.ret = "Ok")
          => Added(items', bindings', last'.ns, AbsolutePath_new(ThisCrate, last'.path))
       /\ (/\ last'.op = "Walker_add_binding"
           /\ last'.ret = "Ok"
           /\ Added(items, bindings, last'.ns, last'.target))
          => /\ bindings'[last'.ns][last'.path]
                   = Binding(last'.target, last'.visibility, last'.priority)
             /\ Added(items', bindings', last'.ns, last'.target)]_vars

\* The public type b of the module a has just been bound to the name a of
\* the root, visible in the crate only.
C23_Witness ==
    /\ last.op = "Walker_add_binding"
    /\ last.ret = "Ok"
    /\ last.path = <<"a">>
    /\ last.visibility = "InScope"
    /\ last.target = AbsolutePath_new(ThisCrate, <<"a", "b">>)
    /\ Added(items, bindings, "Type", last.target)
    /\ items["Type"][<<"a", "b">>].visibility = "Pub"
    /\ bindings["Type"][<<"a">>].absolute_target = bindings["Type"][<<"a", "b">>].absolute_target

----------------------------------------------------------------------------
(* Properties of lowering                                                  *)

\* lower_signature has returned Ok for the signature at hand.
SignatureLowered == syn.kind = "Signature" /\ lowered.ret = "Ok"

\* C24: the calling convention of a lowered signature is Rust without an
\* `extern`, C for an `extern` without a string, C for "C", Rust for "Rust"
\* and Other(s) for any other string s.
C24_CallingConvention ==
    SignatureLowered
    => /\ syn.abi = None => lowered.abi = Abi_Rust
       /\ syn.abi = Some(None) => lowered.abi = Abi_C
       /\ \A s \in {"C", "Rust", "system"} :
             syn.abi = Some(Some(s))
             => lowered.abi = (IF s = "C" THEN Abi_C
                               ELSE IF s = "Rust" THEN Abi_Rust ELSE Abi_Other(s))

\* A signature marked `extern` without a string has been lowered to the C
\* convention.
C24_Witness ==
    /\ SignatureLowered
    /\ syn.abi = Some(None)
    /\ lowered.abi = Abi_C

\* The typed arguments of a sequence of inputs, in its order, as lowered
\* arguments.
RECURSIVE TypedOf(_)
TypedOf(inputs) ==
    IF inputs = << >>
    THEN << >>
    ELSE LET arg == Head(inputs) IN
         IF arg.arg = "Typed"
         THEN <<FunctionArg(lower_type(arg.ty).type_,
                            IF arg.pat.pat = "Ident" THEN arg.pat.ident ELSE "_")>>
              \o TypedOf(Tail(inputs))
         ELSE TypedOf(Tail(inputs))

\* C25: the receiver of a lowered signature is None without a self
\* argument, ConsumeSelf for self by value and RefSelf with its lifetime
\* and mutability for a reference, and the arguments are the typed inputs
\* in source order, without the last input when the function is variadic.
C25_ReceiverAndArgs ==
    SignatureLowered
    => LET inputs == syn.inputs
           first == IF inputs = << >> THEN Typed(PatTuple, "-") ELSE inputs[1]
           cut == IF syn.variadic THEN SubSeq(inputs, 1, Len(inputs) - 1) ELSE inputs
       IN  /\ lowered.receiver =
                 (IF first.arg # "Receiver" THEN Receiver_None
                  ELSE IF first.reference = None THEN Receiver_ConsumeSelf
                  ELSE [receiver |-> "RefSelf",
                        lifetime |-> IF first.reference[1] = None THEN None
                                     ELSE Some(<<"Lifetime", first.reference[1][1]>>),
                        mut_ |-> first.mutability])
           /\ lowered.args = TypedOf(cut)
           /\ lowered.variadic = syn.variadic

\* `fn(&'a mut self, y: i32, (p, q): i32, rest: ...)` has been lowered to
\* the receiver RefSelf and the two arguments y and _.
C25_Witness ==
    /\ SignatureLowered
    /\ syn.variadic
    /\ Len(syn.inputs) = 4
    /\ lowered.receiver = Receiver_RefSelf(Some(lower_lifetime("'a")), TRUE)
    /\ lowered.args
          = <<FunctionArg(<<"Path", "i32">>, "y"), FunctionArg(<<"Path", "i32">>, "_")>>

\* lower_metadata has returned for the item at hand.
MetadataLowered == syn.kind = "Item" /\ lowered.ret = "Ok"

RECURSIVE JoinDocs(_)
JoinDocs(attributes) ==
    IF attributes = << >>
    THEN << >>
    ELSE (IF Head(attributes).path = "doc" THEN Head(attributes).literal ELSE << >>)
         \o JoinDocs(Tail(attributes))

\* C27: the docs of lowered metadata are the join of the string values of
\* all doc attributes of the item, in source order.
C27_DocsJoined ==
    (MetadataLowered /\ \E k \in DOMAIN syn.attributes : syn.attributes[k].path = "doc")
    => lowered.docs = Some(JoinDocs(syn.attributes))

----------------------------------------------------------------------------
(* Properties of the work list                                             *)

\* C28: when the loop has ended, no import on the work list resolves
\* against the final bindings: every import that resolved, at once or on a
\* later attempt, has left the list.
C28_WorkListSettled ==
    phase = "done"
    => \A k \in DOMAIN work_list :
          try_to_resolve_import(Resolver, work_list[k]).ret = "unresolved"

\* The loop has ended with an empty work list, and x of a is bound to the
\* type y of b: `use b::y as x` was parked until the macro m, invoked in b,
\* had been expanded to the definition of y.
C28_Witness ==
    /\ phase = "done"
    /\ work_list = << >>
    /\ unexpanded = {}
    /\ <<"m">> \in DOMAIN items["Macro"]
    /\ BindingIn(bindings, ScopeA, "x")
          = Binding(AbsolutePath_new(ThisCrate, <<"b", "y">>), "Pub", "Explicit")

----------------------------------------------------------------------------
(* Properties of transitive_dependencies                                   *)

\* The crates reachable from those of S along dependency edges.
RECURSIVE ReachableFrom(_)
ReachableFrom(S) ==
    LET T == S \cup UNION {crates[c] : c \in S \cap DOMAIN crates} IN
    IF T = S THEN S ELSE ReachableFrom(T)

\* Every dependency of a crate of the map is a crate of the map.
DepsAreKeys == \A c \in DOMAIN crates : crates[c] \subseteq DOMAIN crates

\* The call has returned the crates reachable from the target.
ReturnedReachable ==
    /\ last.op = "transitive_dependencies"
    /\ last.ret = "Ok"
    /\ transitive_deps = ReachableFrom({target_crate})

\* C29 as stated: for every crate map whose dependencies are all keys of
\* the map, cyclic or not, the call returns, and returns the crates
\* reachable from the target, the target among them.
C29_ReturnsReachable == DepsAreKeys ~> ReturnedReachable

\* C29, amended: the same for every such map that holds the target.
C29_ReturnsReachableOfKey ==
    (DepsAreKeys /\ target_crate \in DOMAIN crates) ~> ReturnedReachable

\* The call has returned {a, b} for the target a in a map of three crates
\* in which a and b depend on each other.
C29_Witness ==
    /\ ReturnedReachable
    /\ DOMAIN crates = CrateIds
    /\ target_crate = "a"
    /\ crates["a"] = {"b"}
    /\ crates["b"] = {"a", "b"}
    /\ transitive_deps = {"a", "b"}

----------------------------------------------------------------------------
(* Properties of failed insertions                                         *)

\* C30: an add_item or a Walker::add that returns an error leaves the items
\* and the bindings as they were before the call.
C30_AllOrNothing ==
    [][(/\ last'.op \in ItemInsertions
        /\ last'.ret \in {"ItemAlreadyPresent", "BindingAlreadyPresent", "NoSuchScope"})
       => (items' = items /\ bindings' = bindings)]_vars

====
